---- MODULE Spec2Model ----
(***************************************************************************)
(* Model of ewmh_client.py: the Atom / Property / ClientMessage access     *)
(* layer of an EWMH client, together with the part of the X server and of  *)
(* the python-xlib connection that the layer talks to.                     *)
(*                                                                         *)
(* A program owns EWMH root contexts (one python-xlib Display each) and    *)
(* calls the methods of Window on them, one call at a time.  A second X    *)
(* client, outside the program, changes properties on the same server.     *)
(***************************************************************************)
EXTENDS Integers, Sequences, FiniteSets, TLC

VARIABLES
    atoms,      \* X server: names of the interned (non-predefined) atoms, in id order
    props,      \* X server: props[w][name] is the property `name` of window w
    everSet,    \* history: the <<w, name>> pairs some ChangeProperty has set
    cache,      \* python-xlib: cache[d] is the set of names in display d's atom cache
    outbuf,     \* python-xlib: outbuf[d] is display d's queue of unsent one-way requests
    events,     \* X server: the ClientMessage events delivered so far
    call,       \* the get_property call in progress (between its two GetProperty requests)
    last,       \* the program's last completed call, until anything else happens
    slotA,      \* program variables holding Atom values
    slotW,      \* program variables holding Window values
    nextObj     \* allocation counter giving each constructed Window its identity

vars == <<atoms, props, everSet, cache, outbuf, events, call, last, slotA, slotW, nextObj>>

---------------------------------------------------------------------------
(* Bounds of the model *)

\* longest property payload, in elements, the server is asked to hold
MaxLen == 3
\* most one-way requests left unsent in a display's queue
MaxBuf == 1
\* most Window objects the program constructs besides the roots
MaxObjs == 3
\* most ClientMessage events waiting for the window manager
MaxEvents == 2
\* longest text, in characters, the program writes
MaxText == 2
\* most data values the program passes to send_message
MaxData == 6
\* most names the program passes to set_desktop_names
MaxNames == 2

---------------------------------------------------------------------------
(* Protocol constants used by the program *)

X_NONE == 0
AnyPropertyType == 0
XA_CARDINAL == 6
XA_STRING == 31
\* the X protocol predefines atoms 1..68 (the last one is WM_TRANSIENT_FOR); the atoms
\* clients intern, such as UTF8_STRING, get the ids that follow
LastPredefined == 68

CHAR == 8
SHORT == 16
INT == 32
Formats == {CHAR, SHORT, INT}

REPLACE == 0
PREPEND == 1
APPEND == 2
Modes == {REPLACE, PREPEND, APPEND}

SubstructureNotifyMask == 524288
SubstructureRedirectMask == 1048576

\* the program's two root contexts: EWMH objects, one Display each
Displays == {1, 2}
NoDisplay == 0
\* window resource ids: the root window of the screen and two client windows
RootId == 100
Windows == {RootId, 201}
WindowIds == {RootId, 201, 202}

PropNames == {"_NET_WM_NAME", "_NET_DESKTOP_NAMES"}
PredefinedNames == {"CARDINAL", "STRING"}

---------------------------------------------------------------------------
(* Sequence helpers *)

RECURSIVE Flatten(_)
Flatten(ss) == IF ss = <<>> THEN <<>> ELSE Head(ss) \o Flatten(Tail(ss))

\* the bytes of the unsigned integer v stored in `width` bits, low byte first
UnitBytes(v, width) == [i \in 1..(width \div 8) |-> (v \div (256 ^ (i - 1))) % 256]

\* the memory of an array of `width`-bit items, as bytes
RawBytes(width, data) == Flatten([i \in 1..Len(data) |-> UnitBytes(data[i], width)])

---------------------------------------------------------------------------
(* The X server: atoms *)

PredefinedId(name) == IF name = "CARDINAL" THEN XA_CARDINAL ELSE XA_STRING

IndexOf(s, x) == CHOOSE i \in 1..Len(s) : s[i] = x

Interned(tbl, name) == \E i \in 1..Len(tbl) : tbl[i] = name

\* InternAtom: the id of `name`; None when only_if_exists and it is not there
ServerInternAtom(tbl, name, only_if_exists) ==
    IF name \in PredefinedNames
        THEN [atom |-> PredefinedId(name), atoms |-> tbl]
    ELSE IF Interned(tbl, name)
        THEN [atom |-> LastPredefined + IndexOf(tbl, name), atoms |-> tbl]
    ELSE IF only_if_exists
        THEN [atom |-> X_NONE, atoms |-> tbl]
    ELSE [atom |-> LastPredefined + Len(tbl) + 1, atoms |-> Append(tbl, name)]

ValidAtom(tbl, id) ==
    \/ id \in {XA_CARDINAL, XA_STRING}
    \/ id \in (LastPredefined + 1)..(LastPredefined + Len(tbl))

\* GetAtomName of a valid atom
ServerAtomName(tbl, id) ==
    IF id = XA_CARDINAL THEN "CARDINAL"
    ELSE IF id = XA_STRING THEN "STRING"
    ELSE tbl[id - LastPredefined]

---------------------------------------------------------------------------
(* The X server: properties *)

NoProp == [type |-> X_NONE, format |-> 0, data |-> <<>>]

\* the property `id` names on window w
ServerProp(tbl, ps, w, id) ==
    IF ValidAtom(tbl, id) /\ ServerAtomName(tbl, id) \in PropNames
        THEN ps[w][ServerAtomName(tbl, id)]
        ELSE NoProp

\* the length of a property in bytes
PropBytes(p) == Len(p.data) * (p.format \div 8)

Min(a, b) == IF a < b THEN a ELSE b

GetPropertyReply(error, property_type, format, bytes_after, value) ==
    [error |-> error, property_type |-> property_type, format |-> format,
     bytes_after |-> bytes_after, value |-> value]

\* the l bytes of property p from byte i on, and what is left after them
ServerSlice(p, i, l) ==
    GetPropertyReply("", p.type, p.format, PropBytes(p) - (i + l),
                     SubSeq(p.data, (i \div (p.format \div 8)) + 1,
                            (i + l) \div (p.format \div 8)))

\* GetProperty of property p: req_type the type asked for, i the byte offset, l the
\* most bytes wanted
ServerReply(p, req_type, i, l) ==
    IF p.type = X_NONE
        THEN GetPropertyReply("", X_NONE, 0, 0, <<>>)
    ELSE IF req_type # AnyPropertyType /\ req_type # p.type
        THEN GetPropertyReply("", p.type, p.format, PropBytes(p), <<>>)
    ELSE IF PropBytes(p) < i
        THEN GetPropertyReply("BadValue", X_NONE, 0, 0, <<>>)
    ELSE ServerSlice(p, i, Min(PropBytes(p) - i, l))

\* GetProperty: long_offset and long_length count 4-byte units
ServerGetProperty(tbl, ps, w, id, req_type, long_offset, long_length) ==
    ServerReply(ServerProp(tbl, ps, w, id), req_type, 4 * long_offset, 4 * long_length)

ChangeResult(error, prop) == [error |-> error, prop |-> prop]

\* the property a ChangeProperty request leaves behind, or "BadMatch"
ServerChangeResult(old, type, format, data, mode) ==
    IF mode = REPLACE \/ old.type = X_NONE
        THEN ChangeResult("", [type |-> type, format |-> format, data |-> data])
    ELSE IF old.type # type \/ old.format # format
        THEN ChangeResult("BadMatch", old)
    ELSE IF mode = PREPEND
        THEN ChangeResult("", [old EXCEPT !.data = data \o old.data])
    ELSE ChangeResult("", [old EXCEPT !.data = old.data \o data])

\* ChangeProperty applied to the server's properties; a rejected request changes nothing
ServerApplyChange(tbl, ps, r) ==
    IF ValidAtom(tbl, r.property) /\ ServerAtomName(tbl, r.property) \in PropNames
        THEN [ps EXCEPT ![r.window][ServerAtomName(tbl, r.property)] =
                ServerChangeResult(@, r.type, r.format, r.data, r.mode).prop]
        ELSE ps

\* the request sets a property
ServerChangeSets(tbl, ps, r) ==
    /\ ValidAtom(tbl, r.property)
    /\ ServerAtomName(tbl, r.property) \in PropNames
    /\ ServerChangeResult(ps[r.window][ServerAtomName(tbl, r.property)],
                          r.type, r.format, r.data, r.mode).error = ""

---------------------------------------------------------------------------
(* python-xlib: the connection of one Display *)

NoEvent == [window |-> X_NONE, client_type |-> X_NONE, format |-> 0, data |-> <<>>]

\* the one-way requests, as they wait in the queue and travel
ChangeReq(w, property, type, format, data, mode) ==
    [kind |-> "ChangeProperty", window |-> w, property |-> property, type |-> type,
     format |-> format, data |-> data, mode |-> mode,
     event |-> NoEvent, event_mask |-> 0, propagate |-> FALSE]

SendEventReq(destination, ev, mask, propagate) ==
    [kind |-> "SendEvent", window |-> destination, property |-> X_NONE, type |-> X_NONE,
     format |-> 0, data |-> <<>>, mode |-> 0,
     event |-> ev, event_mask |-> mask, propagate |-> propagate]

\* the server's properties after the requests of queue q, in order
RECURSIVE ApplyChanges(_, _, _)
ApplyChanges(tbl, ps, q) ==
    IF q = <<>> THEN ps
    ELSE ApplyChanges(tbl,
                      IF Head(q).kind = "ChangeProperty"
                          THEN ServerApplyChange(tbl, ps, Head(q)) ELSE ps,
                      Tail(q))

\* the <<window, name>> pairs the requests of queue q set
RECURSIVE ChangesSet(_, _, _)
ChangesSet(tbl, ps, q) ==
    IF q = <<>> THEN {}
    ELSE (IF Head(q).kind = "ChangeProperty" /\ ServerChangeSets(tbl, ps, Head(q))
              THEN {<<Head(q).window, ServerAtomName(tbl, Head(q).property)>>} ELSE {})
         \cup ChangesSet(tbl,
                         IF Head(q).kind = "ChangeProperty"
                             THEN ServerApplyChange(tbl, ps, Head(q)) ELSE ps,
                         Tail(q))

\* the events the SendEvent requests of queue q deliver
RECURSIVE SentEvents(_)
SentEvents(q) ==
    IF q = <<>> THEN <<>>
    ELSE (IF Head(q).kind = "SendEvent"
              THEN <<[destination |-> Head(q).window, event |-> Head(q).event,
                      event_mask |-> Head(q).event_mask,
                      propagate |-> Head(q).propagate]>>
              ELSE <<>>)
         \o SentEvents(Tail(q))

Lookup(atom, tbl, cch, reqs) == [atom |-> atom, atoms |-> tbl, cache |-> cch, reqs |-> reqs]

\* Display.get_atom on a cache miss: r is the InternAtom reply; None is not cached
XlibInterned(cch, name, r) ==
    Lookup(r.atom, r.atoms, IF r.atom # X_NONE THEN cch \cup {name} ELSE cch,
           <<"InternAtom">>)

\* Display.get_atom: the atom cache first, an InternAtom request on a miss
XlibGetAtom(tbl, cch, name, only_if_exists) ==
    IF name \in cch
        THEN Lookup(ServerInternAtom(tbl, name, TRUE).atom, tbl, cch, <<>>)
        ELSE XlibInterned(cch, name, ServerInternAtom(tbl, name, only_if_exists))

\* a payload as Python holds it: bytes (width 8), array('H') (16) or array('I') (32)
Value(width, data) == [width |-> width, data |-> data]

Joined(error, value) == [error |-> error, value |-> value]

\* v1 + v2 in get_full_property: array + array, bytes + bytes, and bytes + array (the
\* array's memory is appended); array + anything else is a TypeError
XlibConcat(v1, v2) ==
    IF v1.width = v2.width
        THEN Joined("", Value(v1.width, v1.data \o v2.data))
    ELSE IF v1.width = CHAR
        THEN Joined("", Value(CHAR, v1.data \o RawBytes(v2.width, v2.data)))
    ELSE Joined("TypeError", v1)

\* the unsigned integer v fits an array item of `format` bits
FitsItem(v, format) ==
    IF format = INT THEN v \div 65536 < 65536 ELSE v < 2 ^ format

\* item i of a bytes payload sent with `format` bits an item
BytesItem(data, format, i) ==
    IF format = CHAR THEN data[i]
    ELSE IF format = SHORT THEN data[2 * i - 1] + 256 * data[2 * i]
    ELSE data[4 * i - 3] + 256 * data[4 * i - 2] + 65536 * data[4 * i - 1]
         + 16777216 * data[4 * i]

Packed(error, data) == [error |-> error, data |-> data]

\* PropertyData.pack_value: bytes are sent as they are (whole items only), a sequence of
\* integers goes through array(code of the format), which refuses what does not fit
XlibPackValue(format, payload) ==
    IF payload.kind = "bytes"
        THEN Packed("", [i \in 1..(Len(payload.data) \div (format \div 8)) |->
                            BytesItem(payload.data, format, i)])
    ELSE IF \E i \in 1..Len(payload.data) : ~FitsItem(payload.data[i], format)
        THEN Packed("OverflowError", <<>>)
    ELSE Packed("", payload.data)

\* the reply as python-xlib hands it on: `none` when it carries no type
XlibReply(r) ==
    [error |-> r.error, none |-> r.error = "" /\ r.property_type = X_NONE,
     property_type |-> r.property_type, format |-> r.format,
     bytes_after |-> r.bytes_after,
     value |-> Value(IF r.format = 0 THEN CHAR ELSE r.format, r.value)]

\* python-xlib Window.get_property: one GetProperty round trip
XlibGetProperty(tbl, ps, w, property, property_type, offset, length) ==
    XlibReply(ServerGetProperty(tbl, ps, w, property, property_type, offset, length))

---------------------------------------------------------------------------
(* class Atom: an int carrying its Display and its name *)

\* the values a caller may pass where an atom is expected: an Atom, an int or a str
AtomValue(value, display, name) ==
    [tag |-> "atom", value |-> value, display |-> display, name |-> name]
IntValue(value) == [tag |-> "int", value |-> value, display |-> NoDisplay, name |-> ""]
StrValue(name) == [tag |-> "str", value |-> X_NONE, display |-> NoDisplay, name |-> name]

NoAtom == IntValue(X_NONE)

Made(outcome, atom, tbl, cch, reqs) ==
    [outcome |-> outcome, atom |-> atom, atoms |-> tbl, cache |-> cch, reqs |-> reqs]

\* Atom.__new__ for a str, r being what display.get_atom answered
AtomFromName(name, display, r) ==
    IF r.atom = X_NONE
        THEN Made("UnknownAtom", NoAtom, r.atoms, r.cache, r.reqs)
        ELSE Made("ok", AtomValue(r.atom, display, name), r.atoms, r.cache, r.reqs)

\* Atom.__new__(value, display, create): the Atom, the requests it took, and what it
\* left in the server's atom table and the display's atom cache
AtomNew(value, display, create, tbl, cch) ==
    IF value.tag = "atom"
        THEN Made("ok", value, tbl, cch, <<>>)
    ELSE IF value.tag = "str"
        THEN AtomFromName(value.name, display, XlibGetAtom(tbl, cch, value.name, ~create))
    ELSE IF ValidAtom(tbl, value.value)
        THEN Made("ok", AtomValue(value.value, display, ServerAtomName(tbl, value.value)),
                  tbl, cch, <<"GetAtomName">>)
    ELSE Made("XError", NoAtom, tbl, cch, <<"GetAtomName">>)

\* Atom.__eq__ deciding by the id alone
AtomEqById(self, other) == self.value = other.value

\* Atom.__eq__ against an Atom or an int
AtomEq(self, other) ==
    IF other.tag = "atom"
        THEN self.value = other.value /\ self.display = other.display
        ELSE self.value = other.value

\* Atom.__eq__ against a str
AtomEqStr(self, other) == other = self.name

\* `x == y` of Python for two atom-like numbers: an Atom's __eq__ decides; two plain
\* ints compare by value
NumEq(x, y) ==
    IF x.tag = "atom" THEN AtomEq(x, y)
    ELSE IF y.tag = "atom" THEN AtomEq(y, x)
    ELSE x.value = y.value

---------------------------------------------------------------------------
(* class Property, and the payloads of properties *)

\* a payload as a caller passes it to set_property: bytes or a sequence of ints
Bytes(data) == [kind |-> "bytes", data |-> data]
Ints(data) == [kind |-> "ints", data |-> data]
NoPayload == Ints(<<>>)

Property(name, handle, type, format, value) ==
    [name |-> name, handle |-> handle, type |-> type, format |-> format, value |-> value]

\* the Property get_property returns for a property that is not there
MissingProperty(name, handle) == Property(name, handle, NoAtom, 0, Value(CHAR, <<>>))

NoProperty == MissingProperty("", X_NONE)

---------------------------------------------------------------------------
(* str.encode and bytes.decode, with errors="strict" *)

\* a text is a sequence of code points
Surrogate(c) == c >= 55296 /\ c <= 57343

\* the UTF-8 bytes of code point c
Utf8Char(c) ==
    IF c < 128 THEN <<c>>
    ELSE IF c < 2048 THEN <<192 + (c \div 64), 128 + (c % 64)>>
    ELSE IF c < 65536
        THEN <<224 + (c \div 4096), 128 + ((c \div 64) % 64), 128 + (c % 64)>>
    ELSE <<240 + (c \div 262144), 128 + ((c \div 4096) % 64), 128 + ((c \div 64) % 64),
           128 + (c % 64)>>

\* the codec can encode code point c
Encodable(enc, c) ==
    IF enc = "utf-8" THEN ~Surrogate(c)
    ELSE IF enc = "latin-1" THEN c < 256
    ELSE c < 128

CharBytes(enc, c) == IF enc = "utf-8" THEN Utf8Char(c) ELSE <<c>>

Encoded(error, data) == [error |-> error, data |-> data]

\* text.encode(encoding=enc, errors="strict")
StrEncode(text, enc) ==
    IF \E i \in 1..Len(text) : ~Encodable(enc, text[i])
        THEN Encoded("UnicodeEncodeError", <<>>)
        ELSE Encoded("", Flatten([i \in 1..Len(text) |-> CharBytes(enc, text[i])]))

\* the length of the UTF-8 sequence byte b leads, 0 when no sequence starts with b
Utf8Length(b) ==
    IF b < 128 THEN 1
    ELSE IF b >= 194 /\ b <= 223 THEN 2
    ELSE IF b >= 224 /\ b <= 239 THEN 3
    ELSE IF b >= 240 /\ b <= 244 THEN 4
    ELSE 0

\* the code point the n leading bytes of s stand for
Utf8Value(s, n) ==
    IF n = 1 THEN s[1]
    ELSE IF n = 2 THEN (s[1] - 192) * 64 + (s[2] - 128)
    ELSE IF n = 3 THEN (s[1] - 224) * 4096 + (s[2] - 128) * 64 + (s[3] - 128)
    ELSE (s[1] - 240) * 262144 + (s[2] - 128) * 4096 + (s[3] - 128) * 64 + (s[4] - 128)

\* s starts with a well-formed sequence of n bytes: continuation bytes follow the lead,
\* and the code point is neither overlong, nor a surrogate, nor beyond U+10FFFF
Utf8Valid(s, n) ==
    /\ n > 0
    /\ Len(s) >= n
    /\ \A i \in 2..n : s[i] >= 128 /\ s[i] <= 191
    /\ n = 3 => (Utf8Value(s, 3) >= 2048 /\ ~Surrogate(Utf8Value(s, 3)))
    /\ n = 4 => (Utf8Value(s, 4) >= 65536 /\ Utf8Value(s, 4) <= 1114111)

Decoded(error, text) == [error |-> error, text |-> text]

\* the code point c followed by the decoded rest r
Cons(c, r) == IF r.error # "" THEN r ELSE Decoded("", <<c>> \o r.text)

RECURSIVE Utf8Decode(_)
Utf8Decode(s) ==
    IF s = <<>> THEN Decoded("", <<>>)
    ELSE IF ~Utf8Valid(s, Utf8Length(s[1])) THEN Decoded("UnicodeDecodeError", <<>>)
    ELSE Cons(Utf8Value(s, Utf8Length(s[1])),
              Utf8Decode(SubSeq(s, Utf8Length(s[1]) + 1, Len(s))))

\* data.decode(encoding=enc, errors="strict")
StrDecode(data, enc) ==
    IF enc = "utf-8" THEN Utf8Decode(data)
    ELSE IF enc = "latin-1" THEN Decoded("", data)
    ELSE IF \E i \in 1..Len(data) : data[i] >= 128 THEN Decoded("UnicodeDecodeError", <<>>)
    ELSE Decoded("", data)

\* sep.join(strs)
RECURSIVE StrJoin(_, _)
StrJoin(sep, strs) ==
    IF strs = <<>> THEN <<>>
    ELSE IF Len(strs) = 1 THEN Head(strs)
    ELSE Head(strs) \o <<sep>> \o StrJoin(sep, Tail(strs))

\* s.split(sep), sep being one character: the pieces between the separators, the
\* whole of s when it has none (the empty text gives one empty piece)
RECURSIVE StrSplit(_, _)
StrSplit(s, sep) ==
    IF \A i \in 1..Len(s) : s[i] # sep THEN <<s>>
    ELSE LET at == CHOOSE i \in 1..Len(s) : s[i] = sep /\ \A j \in 1..(i - 1) : s[j] # sep
         IN  <<SubSeq(s, 1, at - 1)>> \o StrSplit(SubSeq(s, at + 1, Len(s)), sep)

---------------------------------------------------------------------------
(* The program's state *)

\* the root context the property and message calls of the model are made on
Ewmh == 1

\* Window.UTF8_STRING, resolved when the Window is constructed
UTF8_STRING(display) == AtomValue(LastPredefined + 1, display, "UTF8_STRING")

\* Window.ENCODINGS: the charset of a text property type, "" when it has none
ENCODINGS(display, type) ==
    IF NumEq(type, IntValue(XA_STRING)) THEN "latin-1"
    ELSE IF NumEq(type, UTF8_STRING(display)) THEN "utf-8"
    ELSE ""

\* the record of a call: what was asked, what went over the connection, what came back
NoCall ==
    [op |-> "none", window |-> X_NONE, name |-> "", expected |-> NoAtom, size_hint |-> 0,
     payload |-> NoPayload, ptype |-> NoAtom, format |-> 0, mode |-> REPLACE,
     immediate |-> FALSE, text |-> <<>>, encoding |-> "", target |-> X_NONE,
     outcome |-> "", value |-> NoProperty, result |-> <<>>,
     reqs |-> <<>>, flushed |-> FALSE, rejected |-> FALSE,
     after_set |-> FALSE, set_op |-> "", set_type |-> X_NONE, set_format |-> 0,
     set_data |-> <<>>, set_text |-> <<>>, set_encoding |-> "",
     never_set |-> FALSE, steady |-> TRUE, trailing |-> 0]

Idle ==
    [pc |-> "idle", op |-> "", encoding |-> "", window |-> X_NONE, name |-> "",
     name_atom |-> X_NONE, expected |-> NoAtom, size_hint |-> 0,
     val |-> Value(CHAR, <<>>), bytes_after |-> 0, reqs |-> <<>>, steady |-> TRUE,
     after_set |-> FALSE, set_op |-> "", set_type |-> X_NONE, set_format |-> 0,
     set_data |-> <<>>, set_text |-> <<>>, set_encoding |-> ""]

EmptyProps == [w \in Windows |-> [n \in PropNames |-> NoProp]]

NoWindow == [id |-> X_NONE, root |-> NoDisplay, obj |-> 0]

\* The state after `EWMH()` has been constructed for each root context, on a server
\* where a window manager and other clients have interned the usual atoms: the
\* constructor resolved UTF8_STRING, which is now in each display's atom cache.
Init ==
    /\ atoms = <<"UTF8_STRING", "_NET_WM_NAME", "_NET_ACTIVE_WINDOW">>
    /\ props = EmptyProps
    /\ everSet = {}
    /\ cache = [d \in Displays |-> {"UTF8_STRING"}]
    /\ outbuf = [d \in Displays |-> <<>>]
    /\ events = <<>>
    /\ call = Idle
    /\ last = NoCall
    /\ slotA = [i \in 1..2 |-> NoAtom]
    /\ slotW = [i \in 1..2 |-> NoWindow]
    /\ nextObj = 1

WithinBounds(ps) == \A w \in Windows, n \in PropNames : Len(ps[w][n].data) <= MaxLen

\* What a call leaves on the connection of the root context and on the server: the
\* atom table and the atom cache as the lookups left them, the requests `sent` applied
\* by the server in order, the requests `queue` waiting in the display's queue.
Connection(tbl, cch, sent, queue) ==
    /\ atoms' = tbl
    /\ cache' = [cache EXCEPT ![Ewmh] = cch]
    /\ outbuf' = [outbuf EXCEPT ![Ewmh] = queue]
    /\ Len(queue) <= MaxBuf
    /\ props' = ApplyChanges(tbl, props, sent)
    /\ WithinBounds(props')
    /\ WithinBounds(ApplyChanges(tbl, props', queue))
    /\ everSet' = everSet \cup ChangesSet(tbl, props, sent)
    /\ events' = events \o SentEvents(sent)
    /\ Len(events') <= MaxEvents

\* a request that waits for its reply makes the display send its queue first
RoundTrip(tbl, cch) == Connection(tbl, cch, outbuf[Ewmh], <<>>)

\* a completed write of this property with REPLACE, with no writer since
AfterSet(w, name) ==
    /\ last.op \in {"set_property", "set_text_property"}
    /\ last.outcome = "ok"
    /\ last.mode = REPLACE
    /\ last.window = w
    /\ last.name = name

\* what a read remembers of the write it follows, if it follows one
Following(w, name) ==
    IF AfterSet(w, name)
        THEN [after_set |-> TRUE, set_op |-> last.op, set_type |-> last.ptype.value,
              set_format |-> last.format, set_data |-> last.payload.data,
              set_text |-> last.text, set_encoding |-> last.encoding]
        ELSE [after_set |-> FALSE, set_op |-> "", set_type |-> X_NONE, set_format |-> 0,
              set_data |-> <<>>, set_text |-> <<>>, set_encoding |-> ""]

---------------------------------------------------------------------------
(* Window.get_text_property: what it makes of the outcome of get_property *)

\* the charset get_text_property decodes with, whatever the type of the property
DecodingAscii(display, type, encoding) == "ascii"

\* the charset get_text_property decodes with: the one given, or else the one
\* ENCODINGS has for the type of the property, or else ASCII
DecodingFor(display, type, encoding) ==
    IF encoding # "" THEN encoding
    ELSE IF ENCODINGS(display, type) = "" THEN "ascii"
    ELSE ENCODINGS(display, type)

\* the shortcut of get_text_property taking any payload without elements
EmptyPayload(text) == text.data = <<>>

\* `text == b""`: bytes without elements; an array without elements is not equal to it
EmptyBytes(text) == text = Value(CHAR, <<>>)

GetTextDecoded(g, encoding, d) ==
    IF d.error # ""
        THEN [g EXCEPT !.op = "get_text_property", !.encoding = encoding,
                       !.outcome = d.error]
        ELSE [g EXCEPT !.op = "get_text_property", !.encoding = encoding,
                       !.result = d.text]

\* get_text_property once get_property has come to g: an exception passes through, the
\* empty bytes are the empty text, any payload but bytes is no text, bytes are decoded
GetTextDone(g, encoding) ==
    IF g.outcome # "ok"
        THEN [g EXCEPT !.op = "get_text_property", !.encoding = encoding]
    ELSE IF EmptyBytes(g.value.value)
        THEN [g EXCEPT !.op = "get_text_property", !.encoding = encoding]
    ELSE IF g.value.value.width # CHAR
        THEN [g EXCEPT !.op = "get_text_property", !.encoding = encoding,
                       !.outcome = "NotATextProperty"]
    ELSE GetTextDecoded(g, encoding,
                        StrDecode(g.value.value.data,
                                  DecodingFor(Ewmh, g.value.type, encoding)))

---------------------------------------------------------------------------
(* Window.get_property *)

Checked(outcome, value, reqs) == [outcome |-> outcome, value |-> value, reqs |-> reqs]

\* ConsistencyChecks without the type check
ChecksWithoutType(expected_type, prop, bytes_after, reqs, named) ==
    IF bytes_after > 0
        THEN Checked("IncompletePropertyRead", prop, reqs)
        ELSE Checked("ok", prop, reqs)

\* ConsistencyChecks without the completeness check
ChecksWithoutLength(expected_type, prop, bytes_after, reqs, named) ==
    IF ~(NumEq(expected_type, IntValue(AnyPropertyType)) \/ NumEq(expected_type, prop.type))
        THEN Checked("TypeMismatch", prop, reqs \o named)
        ELSE Checked("ok", prop, reqs)

\* the consistency checks of get_property on the Property built from the reply: the
\* type asked for against the type received, then the bytes the reply left unread;
\* `named` are the requests that naming the expected type in the error message takes
ConsistencyChecks(expected_type, prop, bytes_after, reqs, named) ==
    IF ~(NumEq(expected_type, IntValue(AnyPropertyType)) \/ NumEq(expected_type, prop.type))
        THEN Checked("TypeMismatch", prop, reqs \o named)
    ELSE IF bytes_after > 0
        THEN Checked("IncompletePropertyRead", prop, reqs)
    ELSE Checked("ok", prop, reqs)

\* get_property from the reply on: build the Property (its type Atom takes a
\* GetAtomName request), then the consistency checks
FinishGetProperty(name, w, display, expected_type, xprop, tbl, reqs) ==
    ConsistencyChecks(expected_type,
                      Property(name, w,
                               AtomNew(IntValue(xprop.property_type), display, FALSE,
                                       tbl, {}).atom,
                               xprop.format, xprop.value),
                      xprop.bytes_after,
                      reqs \o <<"GetAtomName">>,
                      AtomNew(expected_type, display, FALSE, tbl, {}).reqs)

GetPropertyDone(w, name, expected, size_hint, outcome, value, reqs, trailing, after, fresh, steady) ==
    [NoCall EXCEPT !.op = "get_property", !.window = w, !.name = name,
                   !.expected = expected, !.size_hint = size_hint,
                   !.outcome = outcome, !.value = value, !.reqs = reqs,
                   !.flushed = TRUE, !.trailing = trailing,
                   !.after_set = after.after_set, !.set_op = after.set_op,
                   !.set_type = after.set_type,
                   !.set_format = after.set_format, !.set_data = after.set_data,
                   !.set_text = after.set_text, !.set_encoding = after.set_encoding,
                   !.never_set = fresh, !.steady = steady]

\* where get_property stands once the first GetProperty reply is in; `more` tells that
\* python-xlib's get_full_property has a second request to make
First(more, outcome, value, reqs, a, val, bytes_after) ==
    [more |-> more, outcome |-> outcome, value |-> value, reqs |-> reqs,
     atoms |-> a.atoms, cache |-> a.cache, name_atom |-> a.atom.value,
     val |-> val, bytes_after |-> bytes_after]

FirstChecked(a, fin) ==
    First(FALSE, fin.outcome, fin.value, fin.reqs, a, Value(CHAR, <<>>), 0)

\* get_property from the first reply x on, the name resolved to a
FirstReply(w, name, display, expected_type, a, x) ==
    IF x.none
        THEN First(FALSE, "ok", MissingProperty(name, w), a.reqs \o <<"GetProperty">>,
                   a, Value(CHAR, <<>>), 0)
    ELSE IF x.bytes_after = 0
        THEN FirstChecked(a, FinishGetProperty(name, w, display, expected_type, x,
                                               a.atoms, a.reqs \o <<"GetProperty">>))
    ELSE First(TRUE, "", NoProperty, a.reqs \o <<"GetProperty">>, a, x.value,
               x.bytes_after)

\* get_property from the resolution a of its name on
FirstNamed(w, name, display, expected_type, size_hint, ps, a) ==
    IF a.outcome # "ok"
        THEN First(FALSE, a.outcome, NoProperty, a.reqs, a, Value(CHAR, <<>>), 0)
        ELSE FirstReply(w, name, display, expected_type, a,
                        XlibGetProperty(a.atoms, ps, w, a.atom.value,
                                        expected_type.value, 0, size_hint))

\* get_property up to the reply of the first GetProperty request, on the properties
\* ps the server holds once the display's queue has been sent
GetPropertyFirst(w, name, display, expected_type, size_hint, tbl, cch, ps) ==
    FirstNamed(w, name, display, expected_type, size_hint, ps,
               AtomNew(StrValue(name), display, FALSE, tbl, cch))

\* the call in progress between the two requests of get_full_property
Pending(op, encoding, w, name, expected_type, size_hint, r, after) ==
    [pc |-> "more", op |-> op, encoding |-> encoding, window |-> w, name |-> name,
     name_atom |-> r.name_atom, expected |-> expected_type, size_hint |-> size_hint,
     val |-> r.val, bytes_after |-> r.bytes_after, reqs |-> r.reqs, steady |-> TRUE,
     after_set |-> after.after_set, set_op |-> after.set_op,
     set_type |-> after.set_type,
     set_format |-> after.set_format, set_data |-> after.set_data,
     set_text |-> after.set_text, set_encoding |-> after.set_encoding]

\* get_desktop_names once get_text_property has come to t: `text[:-1].split("\0")`
NamesDone(t) ==
    IF t.outcome # "ok"
        THEN [t EXCEPT !.op = "get_desktop_names"]
        ELSE [t EXCEPT !.op = "get_desktop_names",
                       !.result = StrSplit(SubSeq(t.result, 1, Len(t.result) - 1), 0)]

\* what the caller of get_property makes of its outcome g: get_text_property decodes
\* it, get_desktop_names splits the decoded text, any other caller has it as it is
Returned(op, encoding, g) ==
    IF op = "get_text_property" THEN GetTextDone(g, encoding)
    ELSE IF op = "get_desktop_names" THEN NamesDone(GetTextDone(g, encoding))
    ELSE g

\* get_property, called by `op`, having come to r with its first request
GetPropertyBegin(op, encoding, w, name, expected_type, size_hint, r, after) ==
    /\ RoundTrip(r.atoms, r.cache)
    /\ call' = IF r.more
                   THEN Pending(op, encoding, w, name, expected_type, size_hint, r, after)
                   ELSE Idle
    /\ last' = IF r.more THEN NoCall
               ELSE Returned(op, encoding,
                             GetPropertyDone(w, name, expected_type, size_hint,
                                             r.outcome, r.value, r.reqs, 0, after,
                                             <<w, name>> \notin everSet', TRUE))

\* get_property is called, and runs until the first GetProperty reply is in
GetPropertyCall(w, name, expected_type, size_hint) ==
    /\ call.pc = "idle"
    /\ GetPropertyBegin("get_property", "", w, name, expected_type, size_hint,
                        GetPropertyFirst(w, name, Ewmh, expected_type, size_hint, atoms,
                                         cache[Ewmh],
                                         ApplyChanges(atoms, props, outbuf[Ewmh])),
                        Following(w, name))
    /\ UNCHANGED <<slotA, slotW, nextObj>>

\* get_text_property is called, and runs until the first GetProperty reply is in
GetTextProperty(w, name, expected_type, encoding) ==
    /\ call.pc = "idle"
    /\ GetPropertyBegin("get_text_property", encoding, w, name, expected_type, 256,
                        GetPropertyFirst(w, name, Ewmh, expected_type, 256, atoms,
                                         cache[Ewmh],
                                         ApplyChanges(atoms, props, outbuf[Ewmh])),
                        Following(w, name))
    /\ UNCHANGED <<slotA, slotW, nextObj>>

\* get_wm_name passing no expected type
WmNameAnyType(display) == IntValue(AnyPropertyType)

\* the expected type get_wm_name passes: `self.UTF8_STRING`
WmNameType(display) == UTF8_STRING(display)

\* get_wm_name: `self.get_text_property("_NET_WM_NAME", self.UTF8_STRING)`
GetWmName(w) == GetTextProperty(w, "_NET_WM_NAME", WmNameType(Ewmh), "")

\* EWMH.get_desktop_names is called, and runs until the first GetProperty reply is in
GetDesktopNames ==
    /\ call.pc = "idle"
    /\ GetPropertyBegin("get_desktop_names", "", RootId, "_NET_DESKTOP_NAMES",
                        UTF8_STRING(Ewmh), 256,
                        GetPropertyFirst(RootId, "_NET_DESKTOP_NAMES", Ewmh,
                                         UTF8_STRING(Ewmh), 256, atoms, cache[Ewmh],
                                         ApplyChanges(atoms, props, outbuf[Ewmh])),
                        Following(RootId, "_NET_DESKTOP_NAMES"))
    /\ UNCHANGED <<slotA, slotW, nextObj>>

MoreDone(c, outcome, value, reqs, trailing) ==
    GetPropertyDone(c.window, c.name, c.expected, c.size_hint, outcome, value, reqs,
                    trailing, c, FALSE, c.steady)

MoreChecked(c, fin, trailing) == MoreDone(c, fin.outcome, fin.value, fin.reqs, trailing)

\* the second reply x of get_full_property: its payload is joined to the first part
\* (a missing reply has no payload to join), then the Property is built and checked
MoreJoined(c, x, joined, reqs) ==
    IF x.error # "" THEN MoreDone(c, "XError", NoProperty, reqs, 0)
    ELSE IF x.none THEN MoreDone(c, "AttributeError", NoProperty, reqs, 0)
    ELSE IF joined.error # "" THEN MoreDone(c, joined.error, NoProperty, reqs, 0)
    ELSE MoreChecked(c, FinishGetProperty(c.name, c.window, Ewmh, c.expected,
                                          [x EXCEPT !.value = joined.value], atoms, reqs),
                     x.bytes_after)

MoreReply(c, x) == MoreJoined(c, x, XlibConcat(c.val, x.value), c.reqs \o <<"GetProperty">>)

\* get_property from the second GetProperty request of get_full_property on
GetPropertyMore ==
    /\ call.pc = "more"
    /\ call' = Idle
    /\ last' = Returned(call.op, call.encoding,
                        MoreReply(call, XlibGetProperty(atoms, props, call.window,
                                                        call.name_atom,
                                                        call.expected.value,
                                                        call.size_hint,
                                                        (call.bytes_after \div 4) + 1)))
    /\ UNCHANGED <<atoms, props, everSet, cache, outbuf, events, slotA, slotW, nextObj>>

---------------------------------------------------------------------------
(* Window.set_property *)

\* set_property without its local check
AnyFormatAccepted(payload, data_format) == TRUE

\* the local check of set_property: bytes go with CHAR only
FormatAccepted(payload, data_format) ==
    ~(payload.kind = "bytes" /\ data_format # CHAR)

\* set_property's change_property call, with data_format forgotten (the default sent)
ChangePropertyDefaultFormat(w, name_atom, type_atom, data_format, data, mode) ==
    ChangeReq(w, name_atom.value, type_atom.value, INT, data, mode)

\* the change_property call of set_property: the request python-xlib queues
ChangePropertyCall(w, name_atom, type_atom, data_format, data, mode) ==
    ChangeReq(w, name_atom.value, type_atom.value, data_format, data, mode)

\* the record of a set_property or set_text_property call, as it is entered
SetPropertyArgs(op, w, name, payload, property_type, data_format, mode, immediate) ==
    [NoCall EXCEPT !.op = op, !.window = w, !.name = name,
                   !.payload = payload, !.ptype = property_type,
                   !.format = data_format, !.mode = mode, !.immediate = immediate]

\* the call c raises `outcome` after the requests reqs, all of them round trips
Raised(c, outcome, reqs, tbl, cch) ==
    /\ last' = [c EXCEPT !.outcome = outcome, !.reqs = reqs]
    /\ IF reqs # <<>>
           THEN RoundTrip(tbl, cch)
           ELSE Connection(tbl, cch, <<>>, outbuf[Ewmh])

\* the server rejects the ChangeProperty request r that reaches it after the requests
\* of queue q: it answers with an X error, which python-xlib reads at some later time
Rejects(tbl, ps, q, r) == ~ServerChangeSets(tbl, ApplyChanges(tbl, ps, q), r)

\* set_property leaving its request in the queue, whatever `immediate` says
SetQueuedUnflushed(c, reqs, tbl, cch, req) ==
    /\ last' = [c EXCEPT !.outcome = "ok", !.reqs = reqs \o <<"ChangeProperty">>,
                         !.flushed = c.immediate]
    /\ Connection(tbl, cch,
                  IF reqs # <<>> THEN outbuf[Ewmh] ELSE <<>>,
                  (IF reqs # <<>> THEN <<>> ELSE outbuf[Ewmh]) \o <<req>>)

\* the call c queues the ChangeProperty request req after the round trips reqs, and
\* flushes the queue when it is immediate; it returns without waiting for the server,
\* whether the server accepts the request or rejects it
SetQueued(c, reqs, tbl, cch, req) ==
    /\ last' = [c EXCEPT !.outcome = "ok", !.reqs = reqs \o <<"ChangeProperty">>,
                         !.flushed = c.immediate,
                         !.rejected = c.immediate
                                        /\ Rejects(tbl, props, outbuf[Ewmh], req)]
    /\ Connection(tbl, cch,
                  (IF reqs # <<>> \/ c.immediate THEN outbuf[Ewmh] ELSE <<>>)
                      \o (IF c.immediate THEN <<req>> ELSE <<>>),
                  (IF reqs # <<>> \/ c.immediate THEN <<>> ELSE outbuf[Ewmh])
                      \o (IF c.immediate THEN <<>> ELSE <<req>>))

\* change_property packs the payload and queues the request
SetPacked(c, a1, a2, reqs, packed) ==
    IF packed.error # ""
        THEN Raised(c, packed.error, reqs, a2.atoms, a2.cache)
        ELSE SetQueued(c, reqs, a2.atoms, a2.cache,
                       ChangePropertyCall(c.window, a1.atom, a2.atom, c.format,
                                          packed.data, c.mode))

\* set_property from the resolution a2 of property_type on
SetTyped(c, before, a1, a2) ==
    IF a2.outcome # "ok"
        THEN Raised(c, a2.outcome, before \o a1.reqs \o a2.reqs, a2.atoms, a2.cache)
        ELSE SetPacked(c, a1, a2, before \o a1.reqs \o a2.reqs,
                       XlibPackValue(c.format, c.payload))

\* set_property from the resolution a1 of name on
SetNamed(c, before, a1) ==
    IF a1.outcome # "ok"
        THEN Raised(c, a1.outcome, before \o a1.reqs, a1.atoms, a1.cache)
        ELSE SetTyped(c, before, a1, AtomNew(c.ptype, Ewmh, FALSE, a1.atoms, a1.cache))

\* What one set_property call c does to the connection and the server; `before` are
\* the requests the caller has already made in this call, which left the atom table
\* tbl and the atom cache cch.
SetPropertyEffect(c, before, tbl, cch) ==
    IF ~FormatAccepted(c.payload, c.format)
        THEN Raised(c, "FormatMismatch", before, tbl, cch)
        ELSE SetNamed(c, before, AtomNew(StrValue(c.name), Ewmh, FALSE, tbl, cch))

SetProperty(w, name, payload, property_type, data_format, mode, immediate) ==
    /\ call.pc = "idle"
    /\ SetPropertyEffect(SetPropertyArgs("set_property", w, name, payload, property_type,
                                         data_format, mode, immediate),
                         <<>>, atoms, cache[Ewmh])
    /\ UNCHANGED <<call, slotA, slotW, nextObj>>

---------------------------------------------------------------------------
(* Window.set_text_property *)

\* set_text_property from the encoded text on: set_property does the rest
SetTextEncoded(c, t, data) ==
    IF data.error # ""
        THEN Raised(c, data.error, t.reqs, t.atoms, t.cache)
        ELSE SetPropertyEffect([c EXCEPT !.payload = Bytes(data.data), !.ptype = t.atom],
                               t.reqs, t.atoms, t.cache)

\* set_text_property taking any type for a text type
AnyTextType(display, type) == TRUE

\* `type_atom in self.ENCODINGS`
TextTypeKnown(display, type) == ENCODINGS(display, type) # ""

\* set_text_property from the resolution t of property_type on: a type ENCODINGS does
\* not know is refused, and the refusal names the types it knows (a GetAtomName
\* request) before its message, whose format is malformed, fails to build
SetTextTyped(c, t) ==
    IF t.outcome # "ok"
        THEN Raised(c, t.outcome, t.reqs, t.atoms, t.cache)
    ELSE IF ~TextTypeKnown(Ewmh, t.atom)
        THEN Raised(c, "ValueError", t.reqs \o <<"GetAtomName">>, t.atoms, t.cache)
    ELSE SetTextEncoded(c, t,
                        StrEncode(c.text, IF c.encoding # "" THEN c.encoding
                                          ELSE ENCODINGS(Ewmh, t.atom)))

SetTextProperty(w, name, text, property_type, encoding, mode, immediate) ==
    /\ call.pc = "idle"
    /\ SetTextTyped([SetPropertyArgs("set_text_property", w, name, NoPayload,
                                     property_type, CHAR, mode, immediate)
                        EXCEPT !.text = text, !.encoding = encoding],
                    AtomNew(property_type, Ewmh, FALSE, atoms, cache[Ewmh]))
    /\ UNCHANGED <<call, slotA, slotW, nextObj>>

\* the text set_desktop_names writes: `"\0".join(desktop_names) + "\0"`
DesktopNamesText(desktop_names) == StrJoin(0, desktop_names) \o <<0>>

\* EWMH.set_desktop_names: `self.set_text_property("_NET_DESKTOP_NAMES", text)`
SetDesktopNames(desktop_names) ==
    SetTextProperty(RootId, "_NET_DESKTOP_NAMES", DesktopNamesText(desktop_names),
                    StrValue("UTF8_STRING"), "", REPLACE, TRUE)

---------------------------------------------------------------------------
(* Window.send_message *)

\* send_message letting six data values through
TooManyBeyondSix(data) == Len(data) > 6

\* the check of send_message on the number of data values
TooMany(data) == Len(data) > 5

\* (data + (0,) * 5)[:5]
Padded(data) == SubSeq(data \o <<0, 0, 0, 0, 0>>, 1, 5)

ClientMessage(window_id, client_type, data) ==
    [window |-> window_id, client_type |-> client_type, format |-> INT,
     data |-> Padded(data)]

\* send_message sending the event to the window it is called on
SendEventToSelf(c, ev) ==
    SendEventReq(c.window, ev, SubstructureRedirectMask + SubstructureNotifyMask, FALSE)

\* `self.root.handle.send_event(ev, event_mask=mask, propagate=False)`: the request
\* python-xlib queues; the handle of the root context is the root window
SendEventCall(c, ev) ==
    SendEventReq(RootId, ev, SubstructureRedirectMask + SubstructureNotifyMask, FALSE)

\* send_message from the lookup t of the message name on: the event goes to the root
\* window, and the display is flushed
SendMessageSent(c, t) ==
    /\ last' = [c EXCEPT !.outcome = "ok", !.reqs = t.reqs \o <<"SendEvent">>,
                         !.flushed = TRUE]
    /\ Connection(t.atoms, t.cache,
                  outbuf[Ewmh]
                      \o <<SendEventCall(c, ClientMessage(c.target, t.atom,
                                                          c.payload.data))>>,
                  <<>>)

SendMessageEffect(c) ==
    IF TooMany(c.payload.data)
        THEN Raised(c, "TooManyArguments", <<>>, atoms, cache[Ewmh])
        ELSE SendMessageSent(c, XlibGetAtom(atoms, cache[Ewmh], c.name, TRUE))

SendMessage(w, name, data, window_id) ==
    /\ call.pc = "idle"
    /\ SendMessageEffect([NoCall EXCEPT !.op = "send_message", !.window = w,
                                        !.name = name, !.payload = Ints(data),
                                        !.target = window_id])
    /\ UNCHANGED <<call, slotA, slotW, nextObj>>

\* the window manager takes the oldest event sent to the root window
WmReceive ==
    /\ events # <<>>
    /\ events' = Tail(events)
    /\ UNCHANGED <<atoms, props, everSet, cache, outbuf, call, last, slotA, slotW, nextObj>>

---------------------------------------------------------------------------
(* Atom values held by the program *)

\* Atom(value, display, create), its result kept in variable i when it returns one;
\* a is what Atom.__new__ comes to
Resolved(i, d, value, create, a) ==
    /\ atoms' = a.atoms
    /\ cache' = [cache EXCEPT ![d] = a.cache]
    /\ slotA' = IF a.outcome = "ok" THEN [slotA EXCEPT ![i] = a.atom] ELSE slotA
    /\ last' = [NoCall EXCEPT !.op = "Atom", !.name = value.name, !.expected = value,
                              !.immediate = create, !.target = d,
                              !.outcome = a.outcome, !.reqs = a.reqs]

Resolve(i, d, value, create) ==
    /\ call.pc = "idle"
    /\ outbuf[d] = <<>>
    /\ Resolved(i, d, value, create, AtomNew(value, d, create, atoms, cache[d]))
    /\ UNCHANGED <<props, everSet, outbuf, events, call, slotW, nextObj>>

\* Atom.name of the Atom in variable i: the name __new__ kept, asked of the server
\* (and kept from then on) only when it is empty
AtomName(i) ==
    /\ call.pc = "idle"
    /\ slotA[i].tag = "atom"
    /\ outbuf[slotA[i].display] = <<>>
    /\ slotA' = IF slotA[i].name = ""
                    THEN [slotA EXCEPT ![i].name = ServerAtomName(atoms, slotA[i].value)]
                    ELSE slotA
    /\ last' = [NoCall EXCEPT !.op = "Atom.name", !.expected = slotA[i],
                              !.name = slotA'[i].name, !.target = slotA[i].display,
                              !.outcome = "ok",
                              !.reqs = IF slotA[i].name = "" THEN <<"GetAtomName">>
                                       ELSE <<>>]
    /\ UNCHANGED <<atoms, props, everSet, cache, outbuf, events, call, slotW, nextObj>>

---------------------------------------------------------------------------
(* Window values held by the program *)

\* Window(window_id, root) as Window.__eq__ sees it: its id, its root context, and the
\* object it is
WindowNew(window_id, root, obj) == [id |-> window_id, root |-> root, obj |-> obj]

\* the root context r is itself a Window: the root window of the screen
RootWindow(r) == WindowNew(RootId, r, r)

\* Window.__eq__ deciding by the id alone
WindowEqById(self, other) == self.id = other.id

\* Window.__eq__ between two Windows: `self.id == other.id and self.root is other.root`
WindowEq(self, other) == self.id = other.id /\ self.root = other.root

Hashed(error, hash) == [error |-> error, hash |-> hash]

\* Window.__hash__: the class defines __eq__ and no __hash__, so Python sets its
\* __hash__ to None, and EWMH inherits it: hash() of a Window raises TypeError
WindowHash(self) == Hashed("TypeError", 0)

\* hash(w) of the Window w in variable i, as a set or a dictionary takes it
HashWindow(i) ==
    /\ slotW[i] # NoWindow
    /\ last' = [NoCall EXCEPT !.op = "hash", !.window = slotW[i].id,
                              !.target = slotW[i].obj,
                              !.outcome = IF WindowHash(slotW[i]).error # ""
                                              THEN WindowHash(slotW[i]).error ELSE "ok",
                              !.result = <<WindowHash(slotW[i]).hash>>]
    /\ UNCHANGED <<atoms, props, everSet, cache, outbuf, events, call, slotA, slotW,
                   nextObj>>

\* Window(window_id, root) is constructed and kept in variable i; its constructor
\* resolves UTF8_STRING, which the atom cache of the root's display answers
NewWindow(i, window_id, r) ==
    /\ nextObj <= MaxObjs
    /\ "UTF8_STRING" \in cache[r]
    /\ slotW' = [slotW EXCEPT ![i] = WindowNew(window_id, r,
                                               Cardinality(Displays) + nextObj)]
    /\ nextObj' = nextObj + 1
    /\ UNCHANGED <<atoms, props, everSet, cache, outbuf, events, call, last, slotA>>

\* the root context r is kept in variable i
TakeRoot(i, r) ==
    /\ slotW' = [slotW EXCEPT ![i] = RootWindow(r)]
    /\ UNCHANGED <<atoms, props, everSet, cache, outbuf, events, call, last, slotA,
                   nextObj>>

---------------------------------------------------------------------------
(* The other X client *)

\* `last` is kept only until the other client writes: from then on no read follows the
\* program's last write undisturbed
Disturb(w, name) ==
    /\ last' = NoCall
    /\ call' = IF call.pc = "idle" THEN call
               ELSE [call EXCEPT !.after_set = FALSE, !.steady = FALSE]

\* the other client's ChangeProperty, r being what the server makes of it
ExtChanged(w, name, r) ==
    /\ r.error = ""
    /\ props' = [props EXCEPT ![w][name] = r.prop]
    /\ WithinBounds(props')
    /\ WithinBounds(ApplyChanges(atoms, props', outbuf[Ewmh]))
    /\ everSet' = everSet \cup {<<w, name>>}
    /\ Disturb(w, name)
    /\ UNCHANGED <<atoms, cache, outbuf, events, slotA, slotW, nextObj>>

\* the other client issues ChangeProperty
ExtChange(w, name, type, format, data, mode) ==
    ExtChanged(w, name, ServerChangeResult(props[w][name], type, format, data, mode))

\* the other client issues DeleteProperty
ExtDelete(w, name) ==
    /\ props[w][name] # NoProp
    /\ props' = [props EXCEPT ![w][name] = NoProp]
    /\ Disturb(w, name)
    /\ UNCHANGED <<atoms, everSet, cache, outbuf, events, slotA, slotW, nextObj>>

\* The behaviours explored keep the properties on one window at a time: a window is
\* written only while no other window holds, has held or is about to be sent one.
Focus(w) ==
    /\ \A e \in everSet : e[1] = w
    /\ \A d \in Displays : \A i \in 1..Len(outbuf[d]) : outbuf[d][i].window = w

---------------------------------------------------------------------------
(* The read path: the specification *)

\* names the program asks for: one that is interned and one that is not
Names == {"_NET_WM_NAME", "FOO"}
\* the types the program passes: ints from Xlib.Xatom and the Window's UTF8_STRING Atom
TypeValues == {IntValue(XA_STRING), IntValue(XA_CARDINAL), UTF8_STRING(Ewmh)}
ExpectedTypes == {IntValue(AnyPropertyType)} \cup TypeValues
SizeHints == {0, 256}
ExtTypes == {XA_STRING, XA_CARDINAL, LastPredefined + 1}
ExtData == {<<>>, <<97>>}

ReadPath ==
    \/ \E w \in Windows, name \in Names, expected_type \in ExpectedTypes,
          size_hint \in SizeHints :
            GetPropertyCall(w, name, expected_type, size_hint)
    \/ GetPropertyMore
    \/ \E w \in Windows, type \in ExtTypes, format \in Formats, data \in ExtData,
          mode \in Modes :
            Focus(w) /\ ExtChange(w, "_NET_WM_NAME", type, format, data, mode)
    \/ \E w \in Windows : ExtDelete(w, "_NET_WM_NAME")

Next == ReadPath

Spec == Init /\ [][Next]_vars

---------------------------------------------------------------------------
(* The write path: the specification *)

SetInput(w, name, payload, property_type, data_format, mode, immediate) ==
    [w |-> w, name |-> name, payload |-> payload, property_type |-> property_type,
     data_format |-> data_format, mode |-> mode, immediate |-> immediate]

\* the set_property calls the program makes: every pairing of a payload kind with a
\* format, two ways of naming the type, replacing and appending; a name that is not
\* interned; writes left in the queue; a prepended item
SetInputs ==
    {SetInput(w, "_NET_WM_NAME", payload, property_type, data_format, mode, TRUE) :
        w \in Windows, payload \in {Bytes(<<97>>), Ints(<<97>>)},
        property_type \in {IntValue(XA_CARDINAL), UTF8_STRING(Ewmh)},
        data_format \in Formats, mode \in {REPLACE, APPEND}}
    \cup {SetInput(w, "FOO", Ints(<<97>>), IntValue(XA_CARDINAL), INT, REPLACE, TRUE) :
            w \in Windows}
    \cup {SetInput(w, "_NET_WM_NAME", Ints(<<97>>), property_type, INT, REPLACE, FALSE) :
            w \in Windows, property_type \in {IntValue(XA_CARDINAL), UTF8_STRING(Ewmh)}}
    \cup {SetInput(w, "_NET_WM_NAME", Ints(<<98>>), IntValue(XA_CARDINAL), INT, PREPEND,
                   TRUE) : w \in Windows}

WritePath ==
    \/ \E i \in SetInputs :
        /\ Focus(i.w) \/ i.name \notin PropNames
        /\ SetProperty(i.w, i.name, i.payload, i.property_type, i.data_format, i.mode,
                       i.immediate)
    \/ \E w \in Windows,
          expected_type \in {IntValue(AnyPropertyType), IntValue(XA_CARDINAL),
                             UTF8_STRING(Ewmh)},
          size_hint \in SizeHints :
            GetPropertyCall(w, "_NET_WM_NAME", expected_type, size_hint)
    \/ GetPropertyMore
    \/ \E w \in Windows, mode \in {REPLACE, APPEND} :
        Focus(w) /\ ExtChange(w, "_NET_WM_NAME", XA_CARDINAL, INT, <<97>>, mode)

SpecWrite == Init /\ [][WritePath]_vars

---------------------------------------------------------------------------
(* Text properties: the specification *)

\* the characters of the texts: a, e-acute, the euro sign, and a lone surrogate
Chars == {97, 233, 8364, 55357}
Texts == UNION {[1..n -> Chars] : n \in 0..MaxText}

\* the client window whose name the program writes and reads
Client == 201

TextInput(text, property_type, encoding, mode, immediate) ==
    [text |-> text, property_type |-> property_type, encoding |-> encoding,
     mode |-> mode, immediate |-> immediate]

\* the set_text_property calls the program makes: every text as UTF8_STRING; the type
\* given by name; texts as STRING; a type that is no text type; a charset given
\* explicitly; an appended text; a write left in the queue
TextInputs ==
    {TextInput(text, UTF8_STRING(Ewmh), "", REPLACE, TRUE) : text \in Texts}
    \cup {TextInput(<<97, 233>>, StrValue("UTF8_STRING"), "", REPLACE, TRUE)}
    \cup {TextInput(text, IntValue(XA_STRING), "", REPLACE, TRUE) :
            text \in {<<233>>, <<8364>>}}
    \cup {TextInput(<<97>>, IntValue(XA_CARDINAL), encoding, REPLACE, TRUE) :
            encoding \in {"", "latin-1"}}
    \cup {TextInput(<<233>>, UTF8_STRING(Ewmh), "latin-1", REPLACE, TRUE)}
    \cup {TextInput(<<97>>, UTF8_STRING(Ewmh), "", APPEND, TRUE)}
    \cup {TextInput(<<233>>, UTF8_STRING(Ewmh), "", REPLACE, FALSE)}

TextPath ==
    \/ \E i \in TextInputs :
        SetTextProperty(Client, "_NET_WM_NAME", i.text, i.property_type, i.encoding,
                        i.mode, i.immediate)
    \/ \E expected_type \in {IntValue(AnyPropertyType), UTF8_STRING(Ewmh),
                             IntValue(XA_STRING)},
          encoding \in {"", "latin-1"} :
            GetTextProperty(Client, "_NET_WM_NAME", expected_type, encoding)
    \/ GetWmName(Client)
    \/ GetPropertyMore
    \/ \E data_format \in {CHAR, INT} :
        SetProperty(Client, "_NET_WM_NAME", Bytes(<<97>>), UTF8_STRING(Ewmh), data_format,
                    REPLACE, TRUE)
    \/ \E type \in {LastPredefined + 1, XA_CARDINAL}, format \in {CHAR, INT},
          data \in {<<>>, <<233>>} :
            ExtChange(Client, "_NET_WM_NAME", type, format, data, REPLACE)
    \/ ExtDelete(Client, "_NET_WM_NAME")

SpecText == Init /\ [][TextPath]_vars

---------------------------------------------------------------------------
(* Client messages: the specification *)

MessageNames == {"_NET_ACTIVE_WINDOW", "FOO"}
\* no data, some data, and 5 to MaxData data values
DataValues == {[i \in 1..n |-> i] : n \in {0, 2} \cup (5..MaxData)}

MessagePath ==
    \/ \E name \in MessageNames, data \in DataValues, window_id \in {X_NONE, Client} :
        SendMessage(RootId, name, data, window_id)
    \/ \E data \in DataValues : SendMessage(Client, "_NET_ACTIVE_WINDOW", data, Client)
    \/ WmReceive
    \/ \E immediate \in BOOLEAN :
        SetProperty(RootId, "_NET_WM_NAME", Ints(<<97>>), IntValue(XA_CARDINAL), INT,
                    REPLACE, immediate)

SpecMsg == Init /\ [][MessagePath]_vars

---------------------------------------------------------------------------
(* Atoms: the specification *)

\* what the program makes Atoms of: names (one of them not interned yet), ids (the
\* last one naming an atom only once that name is interned), and the Atoms it holds
AtomInputs ==
    {StrValue(n) : n \in {"UTF8_STRING", "FOO"}}
    \cup {IntValue(id) : id \in {LastPredefined + 1, LastPredefined + 4}}

AtomPath ==
    \/ \E i \in 1..2, d \in Displays, value \in AtomInputs, create \in BOOLEAN :
        Resolve(i, d, value, create)
    \/ \E i \in 1..2, j \in 1..2, d \in Displays :
        slotA[j].tag = "atom" /\ Resolve(i, d, slotA[j], FALSE)
    \/ \E i \in 1..2 : AtomName(i)

SpecAtom == Init /\ [][AtomPath]_vars

---------------------------------------------------------------------------
(* Windows: the specification *)

WindowPath ==
    \/ \E i \in 1..2, window_id \in WindowIds, r \in Displays : NewWindow(i, window_id, r)
    \/ \E i \in 1..2, r \in Displays : TakeRoot(i, r)
    \/ \E i \in 1..2 : HashWindow(i)

SpecWin == Init /\ [][WindowPath]_vars

---------------------------------------------------------------------------
(* Desktop names: the specification *)

\* The state after `EWMH()` on a server whose window manager names the desktops: it
\* has interned _NET_DESKTOP_NAMES as well.
InitNames ==
    /\ atoms = <<"UTF8_STRING", "_NET_WM_NAME", "_NET_ACTIVE_WINDOW", "_NET_DESKTOP_NAMES">>
    /\ props = EmptyProps
    /\ everSet = {}
    /\ cache = [d \in Displays |-> {"UTF8_STRING"}]
    /\ outbuf = [d \in Displays |-> <<>>]
    /\ events = <<>>
    /\ call = Idle
    /\ last = NoCall
    /\ slotA = [i \in 1..2 |-> NoAtom]
    /\ slotW = [i \in 1..2 |-> NoWindow]
    /\ nextObj = 1

\* the lists of names the program sets: up to MaxNames names, each of them empty, "a"
\* or e-acute; no name holds a NUL
NameLists == UNION {[1..n -> {<<>>, <<97>>, <<233>>}] : n \in 0..MaxNames}

NamesPath ==
    \/ \E desktop_names \in NameLists : SetDesktopNames(desktop_names)
    \/ GetDesktopNames
    \/ \E expected_type \in {IntValue(AnyPropertyType), UTF8_STRING(Ewmh)} :
        GetTextProperty(RootId, "_NET_DESKTOP_NAMES", expected_type, "")
    \/ GetPropertyMore
    \/ \E type \in {LastPredefined + 1, XA_CARDINAL}, format \in {CHAR, INT},
          data \in {<<>>, <<97>>, <<97, 0>>} :
            ExtChange(RootId, "_NET_DESKTOP_NAMES", type, format, data, REPLACE)
    \/ ExtDelete(RootId, "_NET_DESKTOP_NAMES")

SpecNames == InitNames /\ [][NamesPath]_vars

---------------------------------------------------------------------------
(* Claims about the read path, checked under Spec *)

\* the property the last call named, as the server holds it now
Live == IF last.name \in PropNames THEN props[last.window][last.name] ELSE NoProp

Concrete(expected_type) == ~NumEq(expected_type, IntValue(AnyPropertyType))

\* C1: get_property of a name whose property the server never set on the window
\* returns the Property of a missing property (type None, format 0, empty payload)
\* and does not raise, whatever the expected type.
C1_NeverSetReadsMissing ==
    (last.op = "get_property" /\ last.never_set)
        => /\ last.outcome = "ok"
           /\ last.value = MissingProperty(last.name, last.window)

\* C2: a read with a concrete expected type X of a property that exists with another
\* type Y raises TypeMismatch (the property not being rewritten while it is read); and
\* no read returns a Property whose type is neither None nor the concrete expected type.
C2_TypeMismatchRaised ==
    /\ (/\ last.op = "get_property"
        /\ last.steady
        /\ Concrete(last.expected)
        /\ Live.type # X_NONE
        /\ Live.type # last.expected.value)
            => last.outcome = "TypeMismatch"
    /\ (/\ last.op = "get_property"
        /\ last.outcome = "ok"
        /\ Concrete(last.expected)
        /\ last.value.type.value # X_NONE)
            => NumEq(last.expected, last.value.type)

\* C2 happens: a property of one type was read as another, and the read raised
C2_Witness ==
    /\ last.op = "get_property"
    /\ last.outcome = "TypeMismatch"
    /\ last.steady
    /\ Live.type = XA_STRING
    /\ last.expected = UTF8_STRING(Ewmh)

\* C9 as stated: a reply with trailing bytes makes get_property fail with
\* IncompletePropertyRead
C9_TrailingRaisesIncomplete ==
    (last.op = "get_property" /\ last.trailing > 0)
        => last.outcome = "IncompletePropertyRead"

\* C9 as amended: a reply with trailing bytes never makes it into a returned Property:
\* the read fails with TypeMismatch when the type check fails, and with
\* IncompletePropertyRead when the expected type is ANY or is the reply's type.
C9_TrailingNeverReturned ==
    (last.op = "get_property" /\ last.trailing > 0)
        => IF Concrete(last.expected) /\ ~NumEq(last.expected, last.value.type)
               THEN last.outcome = "TypeMismatch"
               ELSE last.outcome = "IncompletePropertyRead"

\* C9 happens: the property grew between the two requests of one read made with
\* expected type ANY, and the read failed as incomplete
C9_Witness ==
    /\ last.op = "get_property"
    /\ last.outcome = "IncompletePropertyRead"
    /\ last.trailing > 0
    /\ last.expected = IntValue(AnyPropertyType)

---------------------------------------------------------------------------
(* Claims about the write path, checked under SpecWrite *)

\* C3: set_property with a bytes payload and a format other than CHAR raises
\* FormatMismatch before anything reaches the connection: no atom lookup, no
\* ChangeProperty, no flush, and the server and the connection stay as they were.
C3_BytesNeedChar ==
    /\ []((last.op = "set_property" /\ last.payload.kind = "bytes" /\ last.format # CHAR)
            => /\ last.outcome = "FormatMismatch"
               /\ last.reqs = <<>>
               /\ ~last.flushed)
    /\ [][(last' # last /\ last'.op = "set_property" /\ last'.payload.kind = "bytes"
             /\ last'.format # CHAR)
            => UNCHANGED <<atoms, props, everSet, cache, outbuf, events>>]_vars

\* C3 happens: bytes were passed with format INT while a write was waiting in the queue
C3_Witness ==
    /\ last.op = "set_property"
    /\ last.payload.kind = "bytes"
    /\ last.format = INT
    /\ last.outcome = "FormatMismatch"
    /\ outbuf[Ewmh] # <<>>

\* C4: a read with expected type T that follows a completed
\* set_property(P, data, T, REPLACE) on the same window, no other client having written
\* in between, returns a Property of type T, of the format written, whose payload is data.
C4_ReplaceRoundTrip ==
    (/\ last.op = "get_property"
     /\ last.after_set
     /\ last.expected.value = last.set_type)
        => /\ last.outcome = "ok"
           /\ last.value.type.value = last.set_type
           /\ last.value.format = last.set_format
           /\ last.value.value.data = last.set_data

\* C4 happens: a property that held something else was replaced, and read back with
\* the two requests of a read made with size hint 0
C4_Witness ==
    /\ last.op = "get_property"
    /\ last.after_set
    /\ last.expected.value = last.set_type
    /\ last.size_hint = 0
    /\ last.set_data = <<97>>
    /\ last.set_format = CHAR
    /\ Len(last.reqs) >= 2 /\ last.reqs[Len(last.reqs) - 1] = "GetProperty"

\* C10 as stated: set_property rejects with FormatMismatch a bytes payload with a
\* format other than CHAR and also a sequence of integers with the CHAR format, and
\* issues no ChangeProperty request in either case.
C10_KindMatchesFormat ==
    (/\ last.op = "set_property"
     /\ \/ last.payload.kind = "bytes" /\ last.format # CHAR
        \/ last.payload.kind = "ints" /\ last.format = CHAR)
        => /\ last.outcome = "FormatMismatch"
           /\ \A i \in 1..Len(last.reqs) : last.reqs[i] # "ChangeProperty"

\* C16 as stated: when the server rejects the ChangeProperty request of a
\* set_property call made without an error handler of the caller's, that same call
\* raises PropertyWriteError.
C16_RejectionRaised ==
    (last.op = "set_property" /\ last.rejected) => last.outcome = "PropertyWriteError"

\* the ChangeProperty request the last call, a set_property that returned, queued
LastChange ==
    ChangeReq(last.window, ServerInternAtom(atoms, last.name, TRUE).atom, last.ptype.value,
              last.format, XlibPackValue(last.format, last.payload).data, last.mode)

---------------------------------------------------------------------------
(* Claims about text properties, checked under SpecText *)

\* C5: get_text_property(name, UTF8_STRING) that follows a completed
\* set_text_property(name, s, UTF8_STRING) on the same window, both with their default
\* charset and no other client having written in between, returns s.
C5_TextRoundTrip ==
    (/\ last.op = "get_text_property"
     /\ last.after_set
     /\ last.set_op = "set_text_property"
     /\ last.set_type = UTF8_STRING(Ewmh).value
     /\ last.set_encoding = ""
     /\ last.expected = UTF8_STRING(Ewmh)
     /\ last.encoding = "")
        => /\ last.outcome = "ok"
           /\ last.result = last.set_text

\* C5 happens: a text with a character of two UTF-8 bytes was written and read back
C5_Witness ==
    /\ last.op = "get_text_property"
    /\ last.after_set
    /\ last.set_op = "set_text_property"
    /\ last.set_type = UTF8_STRING(Ewmh).value
    /\ last.set_encoding = ""
    /\ last.expected = UTF8_STRING(Ewmh)
    /\ last.encoding = ""
    /\ last.set_text = <<97, 233>>
    /\ last.result = <<97, 233>>

\* C11 as stated: set_text_property with a property type that is none of the text
\* types of ENCODINGS (STRING, UTF8_STRING) fails with UnsupportedTextType, with or
\* without an explicit encoding, and issues no ChangeProperty request.
C11_UnknownTypeUnsupported ==
    (/\ last.op = "set_text_property"
     /\ last.ptype.tag = "int"
     /\ ~TextTypeKnown(Ewmh, last.ptype))
        => /\ last.outcome = "UnsupportedTextType"
           /\ \A i \in 1..Len(last.reqs) : last.reqs[i] # "ChangeProperty"

\* get_text_property got a Property from get_property, and went on from there
TextReadReturned ==
    /\ last.op = "get_text_property"
    /\ last.outcome \in {"ok", "NotATextProperty", "UnicodeDecodeError"}

\* C12 as stated: get_text_property returns the empty text whenever the payload
\* get_property returned has no elements, the property being absent or present with
\* format 8, 16 or 32; it fails with NotATextProperty only on a payload that has
\* elements and is not bytes.
C12_EmptyPayloadReadsEmpty ==
    TextReadReturned
        => /\ last.value.value.data = <<>> => (last.outcome = "ok" /\ last.result = <<>>)
           /\ last.outcome = "NotATextProperty"
                => (last.value.value.data # <<>> /\ last.value.value.width # CHAR)

\* C12 as amended: get_text_property returns the empty text when the payload is the
\* empty bytes (an absent property, or a present one of format 8 without elements);
\* it fails with NotATextProperty exactly when the payload is not bytes, a property of
\* format 16 or 32 without elements included.
C12_EmptyBytesReadEmpty ==
    TextReadReturned
        => /\ last.value.value = Value(CHAR, <<>>)
                => (last.outcome = "ok" /\ last.result = <<>>)
           /\ last.outcome = "NotATextProperty" <=> last.value.value.width # CHAR

\* C12 happens: a property of format 32 without elements was read as text, and the
\* read failed
C12_Witness ==
    /\ last.op = "get_text_property"
    /\ last.outcome = "NotATextProperty"
    /\ last.value.value = Value(INT, <<>>)
    /\ Live.type # X_NONE
    /\ Live.data = <<>>

\* what get_text_property(name, expected_type) with the default charset comes to
\* when r is where its get_property stands after the first reply
TextReadOf(w, name, expected_type, r) ==
    Returned("get_text_property", "",
             GetPropertyDone(w, name, expected_type, 256, r.outcome, r.value, r.reqs, 0,
                             Following(X_NONE, ""), FALSE, TRUE))

\* what get_text_property(name), every argument left to its default, comes to when it
\* is called in this state
DefaultTextRead(w, name) ==
    TextReadOf(w, name, IntValue(AnyPropertyType),
               GetPropertyFirst(w, name, Ewmh, IntValue(AnyPropertyType), 256, atoms,
                                cache[Ewmh], ApplyChanges(atoms, props, outbuf[Ewmh])))

\* the last call is what get_wm_name() makes, and nothing has happened since
WmNameRead ==
    /\ last.op = "get_text_property"
    /\ last.name = "_NET_WM_NAME"
    /\ last.expected = WmNameType(Ewmh)
    /\ last.encoding = ""
    /\ last.steady

\* C19 as stated: whatever _NET_WM_NAME is on the window, absent or present with any
\* type, get_wm_name() comes to what get_text_property("_NET_WM_NAME") with default
\* arguments comes to: the same text returned.
C19_WmNameAsDefaultRead ==
    WmNameRead
        => /\ last.outcome = DefaultTextRead(last.window, "_NET_WM_NAME").outcome
           /\ last.result = DefaultTextRead(last.window, "_NET_WM_NAME").result

\* C19 as amended: get_wm_name() comes to what get_text_property("_NET_WM_NAME") with
\* default arguments comes to, the same text or the same failure, when the property is
\* absent or has the type UTF8_STRING; when it has another type get_wm_name() fails
\* with TypeMismatch, which the read with default arguments never does.
C19_WmNameOfUtf8OrAbsent ==
    WmNameRead
        => IF Live.type \in {X_NONE, UTF8_STRING(Ewmh).value}
               THEN /\ last.outcome = DefaultTextRead(last.window, "_NET_WM_NAME").outcome
                    /\ last.result = DefaultTextRead(last.window, "_NET_WM_NAME").result
               ELSE /\ last.outcome = "TypeMismatch"
                    /\ DefaultTextRead(last.window, "_NET_WM_NAME").outcome
                            # "TypeMismatch"

\* C19 happens: the name of a window, a UTF8_STRING, was read by get_wm_name(), and
\* the read with default arguments gives the same text
C19_Witness ==
    /\ WmNameRead
    /\ Live.type = UTF8_STRING(Ewmh).value
    /\ last.outcome = "ok"
    /\ last.result = <<97, 233>>
    /\ DefaultTextRead(last.window, "_NET_WM_NAME").result = <<97, 233>>

\* the last call is a write that failed a check of its format or of its type
WriteCheckFailed ==
    \/ /\ last.op = "set_property"
       /\ last.payload.kind = "bytes"
       /\ last.format # CHAR
    \/ /\ last.op = "set_text_property"
       /\ last.ptype.tag # "str"
       /\ ENCODINGS(Ewmh, last.ptype) = ""

ReadCheckFailed ==
    /\ last.op \in {"get_property", "get_text_property"}
    /\ last.outcome \in {"TypeMismatch", "IncompletePropertyRead"}

\* C20 as stated: a set_property or set_text_property call that fails a check of its
\* format or type fails before it has made any request, atom lookups included; a read
\* fails its type or completeness check only after a GetProperty reply.
C20_ChecksBeforeAnyRequest ==
    /\ WriteCheckFailed => (last.outcome # "ok" /\ last.reqs = <<>>)
    /\ ReadCheckFailed => \E i \in 1..Len(last.reqs) : last.reqs[i] = "GetProperty"

\* C20 as amended: a write that fails a check of its format or type makes no
\* ChangeProperty request; the format check of set_property comes before any request;
\* the type check of set_text_property comes after the resolution of the property
\* type, so that atom requests (GetAtomName, InternAtom), and nothing else, may go
\* before the failure; a read fails its checks only after a GetProperty reply.
C20_ChecksBeforeChange ==
    /\ WriteCheckFailed
            => /\ last.outcome # "ok"
               /\ ~last.flushed
               /\ \A i \in 1..Len(last.reqs) : last.reqs[i] \in {"GetAtomName", "InternAtom"}
               /\ last.op = "set_property" => last.reqs = <<>>
    /\ ReadCheckFailed => \E i \in 1..Len(last.reqs) : last.reqs[i] = "GetProperty"

\* C20 happens: set_text_property was given CARDINAL for the type, and failed after
\* two atom requests and no other
C20_Witness ==
    /\ last.op = "set_text_property"
    /\ last.ptype = IntValue(XA_CARDINAL)
    /\ last.outcome # "ok"
    /\ last.reqs = <<"GetAtomName", "GetAtomName">>
    /\ Live.type # X_NONE

---------------------------------------------------------------------------
(* Claims about client messages, checked under SpecMsg *)

\* C6: send_message with more than 5 data values raises TooManyArguments having made
\* no request: no atom lookup, no SendEvent, no flush; the events delivered, the
\* display's queue and the server stay as they were.
C6_TooManySendsNothing ==
    /\ []((last.op = "send_message" /\ Len(last.payload.data) > 5)
            => /\ last.outcome = "TooManyArguments"
               /\ last.reqs = <<>>
               /\ ~last.flushed)
    /\ [][(last' # last /\ last'.op = "send_message" /\ Len(last'.payload.data) > 5)
            => UNCHANGED <<atoms, props, everSet, cache, outbuf, events>>]_vars

\* C6 happens: six values were passed while a write was waiting in the queue, and
\* the write is still waiting
C6_Witness ==
    /\ last.op = "send_message"
    /\ Len(last.payload.data) = 6
    /\ last.outcome = "TooManyArguments"
    /\ outbuf[Ewmh] # <<>>

\* C13 as stated: send_message never interns the message name; every event it sends
\* carries a message type that is an atom of the server, never None; and a message
\* name that is not interned makes it fail with UnknownAtom, no event being sent.
C13_MessageTypeExists ==
    /\ \A i \in 1..Len(events) : ValidAtom(atoms, events[i].event.client_type)
    /\ (last.op = "send_message" /\ ~TooMany(last.payload.data))
            => /\ ~Interned(atoms, last.name)
                    => /\ last.outcome = "UnknownAtom"
                       /\ \A i \in 1..Len(last.reqs) : last.reqs[i] # "SendEvent"
               /\ Interned(atoms, last.name) => last.outcome = "ok"

\* C14: every event send_message sends goes to the root window of the root context,
\* also when the call is made on a client window, with the mask
\* SubstructureRedirect | SubstructureNotify and without propagation; the call that
\* sends it leaves nothing in the display's queue: what was waiting there and the
\* event have reached the server when it returns.
C14_MessagesGoToRoot ==
    /\ [](\A i \in 1..Len(events) :
            /\ events[i].destination = RootId
            /\ events[i].event_mask = SubstructureRedirectMask + SubstructureNotifyMask
            /\ events[i].propagate = FALSE)
    /\ []((last.op = "send_message" /\ last.outcome = "ok")
            => (last.flushed /\ outbuf[Ewmh] = <<>>))
    /\ [][Len(events') > Len(events)
            => /\ last'.op = "send_message"
               /\ events' = Append(events, events'[Len(events')])
               /\ events'[Len(events')].destination = RootId
               /\ events'[Len(events')].event.window = last'.target
               /\ outbuf'[Ewmh] = <<>>
               /\ props' = ApplyChanges(atoms, props, outbuf[Ewmh])]_vars

\* C14 happens: send_message was called on a client window, and its event waits at
\* the root window
C14_Witness ==
    /\ last.op = "send_message"
    /\ last.outcome = "ok"
    /\ last.window = Client
    /\ last.target = Client
    /\ events # <<>>
    /\ events[Len(events)].destination = RootId
    /\ events[Len(events)].event.window = Client
    /\ props[RootId]["_NET_WM_NAME"] # NoProp

---------------------------------------------------------------------------
(* Claims about Atoms, checked under SpecAtom *)

\* C7: two Atoms compare equal exactly when they have the same id and the same
\* display; two Atoms of one name on one display are equal and have the same id; two
\* Atoms on different displays are not equal, whatever their ids.
C7_AtomEquality ==
    \A i \in 1..2, j \in 1..2 :
        (slotA[i].tag = "atom" /\ slotA[j].tag = "atom")
            => /\ AtomEq(slotA[i], slotA[j])
                    <=> (/\ slotA[i].value = slotA[j].value
                         /\ slotA[i].display = slotA[j].display)
               /\ (slotA[i].name = slotA[j].name /\ slotA[i].display = slotA[j].display)
                    => (AtomEq(slotA[i], slotA[j]) /\ slotA[i].value = slotA[j].value)
               /\ slotA[i].display # slotA[j].display => ~AtomEq(slotA[i], slotA[j])

\* C7 happens: one name, interned by the program, was resolved on the two displays; the
\* ids are the same and the Atoms are not equal
C7_Witness ==
    /\ slotA[1].tag = "atom" /\ slotA[2].tag = "atom"
    /\ slotA[1].name = "FOO" /\ slotA[2].name = "FOO"
    /\ slotA[1].value = slotA[2].value
    /\ slotA[1].display # slotA[2].display
    /\ ~AtomEq(slotA[1], slotA[2])

\* C15 as stated: making an Atom of a numeric id issues no GetAtomName request: the
\* id is kept at once, and the name is asked of the server by the first access to
\* .name, which keeps it, so that an Atom takes one such request at most.
C15_NameFetchedLazily ==
    /\ (last.op = "Atom" /\ last.expected.tag = "int") => last.reqs = <<>>
    /\ (last.op = "Atom.name" /\ last.reqs # <<>>) => last.reqs = <<"GetAtomName">>

---------------------------------------------------------------------------
(* Claims about Windows, checked under SpecWin *)

\* C8: two Windows are equal exactly when they have the same id and the same root
\* context object; whether they are one object or two does not matter.
C8_WindowEquality ==
    \A i \in 1..2, j \in 1..2 :
        (slotW[i] # NoWindow /\ slotW[j] # NoWindow)
            => (WindowEq(slotW[i], slotW[j])
                    <=> (slotW[i].id = slotW[j].id /\ slotW[i].root = slotW[j].root))

\* C8 happens: the program holds two Windows of one id, built under the two roots,
\* and they are not equal
C8_Witness ==
    /\ slotW[1] # NoWindow /\ slotW[2] # NoWindow
    /\ slotW[1].id = 201 /\ slotW[2].id = 201
    /\ slotW[1].root # slotW[2].root
    /\ slotW[1].obj # slotW[2].obj
    /\ ~WindowEq(slotW[1], slotW[2])

\* C18 as stated: hash() of any Window, a root or a derived one, returns a value, and
\* two Windows that are equal have the same hash.
C18_EqualWindowsHashEqual ==
    /\ last.op = "hash" => last.outcome = "ok"
    /\ \A i \in 1..2, j \in 1..2 :
        (slotW[i] # NoWindow /\ slotW[j] # NoWindow /\ WindowEq(slotW[i], slotW[j]))
            => WindowHash(slotW[i]).hash = WindowHash(slotW[j]).hash

---------------------------------------------------------------------------
(* Claims about desktop names, checked under SpecNames *)

\* the last call is a get_desktop_names() that follows a completed
\* set_desktop_names(desktop_names) on the same root, no other client having written
\* in between
NamesReadAfter(desktop_names) ==
    /\ last.op = "get_desktop_names"
    /\ last.after_set
    /\ last.set_op = "set_text_property"
    /\ last.set_text = DesktopNamesText(desktop_names)

\* C21 as stated: for every list of names without NUL, the empty list included,
\* get_desktop_names() after set_desktop_names(names) on the same root, with no other
\* writer in between, returns exactly that list.
C21_DesktopNamesRoundTrip ==
    \A desktop_names \in NameLists :
        NamesReadAfter(desktop_names)
            => (last.outcome = "ok" /\ last.result = desktop_names)

====
